---- MODULE Spec2Model ----
(***************************************************************************)
(* Model of the product CRUD handlers of src/main.py (Christmas 3D Shop    *)
(* API): the product collection of the document store, the identifier      *)
(* codec (PyObjectId.validate), serialize_doc, and the handlers            *)
(* list_products, create_product, update_product and delete_product.       *)
(* update_product makes two store round trips (update_one, find_one), so   *)
(* it is modelled as a process with one step per round trip; the other     *)
(* handlers make at most one store call and are single steps.              *)
(***************************************************************************)
EXTENDS Integers, Sequences, FiniteSets, TLC

\* ---------------------------------------------------------------- bounds
\* Number of documents the store ever inserts (identifiers are never reused).
MaxProducts == 2
\* Largest value of the wall clock (datetime.now).
MaxClock == 1
\* Number of update_product requests of a behaviour.
MaxUpdates == 2

\* ------------------------------------------------------- python values
\* Python's None, and a non-None value x.
None == [none |-> TRUE]
Val(x) == [v |-> x]

\* The empty dict / empty JSON object.
EmptyDict == [k \in {} |-> None]

\* not doc  (None and the empty dict are falsy)
Truthy(doc) == doc # None /\ DOMAIN doc # {}

Range(s) == {s[i] : i \in DOMAIN s}

\* ---------------------------------------------------- identifier codec
\* An ObjectId is 12 bytes, written as 24 hexadecimal characters.
OidLen == 24

HexDigits == <<"0", "1", "2", "3", "4", "5", "6", "7",
               "8", "9", "a", "b", "c", "d", "e", "f">>

\* Hexadecimal parsing is case-insensitive.
Lower(c) ==
    CASE c = "A" -> "a" [] c = "B" -> "b" [] c = "C" -> "c"
      [] c = "D" -> "d" [] c = "E" -> "e" [] c = "F" -> "f"
      [] OTHER -> c

\* The characters that are hexadecimal digits, and the value of each.
HexChars == Range(HexDigits) \cup {"A", "B", "C", "D", "E", "F"}

HexValue ==
    [c \in HexChars |-> (CHOOSE i \in 1..16 : HexDigits[i] = Lower(c)) - 1]

IsHex(c) == c \in HexChars

DigitVal(c) == HexValue[c]

RECURSIVE ToHex(_, _)
ToHex(n, len) ==
    IF len = 0 THEN <<>>
    ELSE Append(ToHex(n \div 16, len - 1), HexDigits[(n % 16) + 1])

\* The number the first n characters of s spell.
RECURSIVE FromHexPrefix(_, _)
FromHexPrefix(s, n) ==
    IF n = 0 THEN 0
    ELSE FromHexPrefix(s, n - 1) * 16 + DigitVal(s[n])

FromHex(s) == FromHexPrefix(s, Len(s))

\* str(oid): the 24-character lower-case hexadecimal form.
str(oid) == ToHex(oid, OidLen)

\* ObjectId(v) for a string v that is_valid accepted.
ObjectId(v) == FromHex(v)

\* Mutant: the length of the string is not checked.
is_valid_NoLength(v) == \A i \in 1..Len(v) : IsHex(v[i])

\* ObjectId.is_valid(v) for a string v: 24 hexadecimal characters.
is_valid(v) == Len(v) = OidLen /\ \A i \in 1..Len(v) : IsHex(v[i])

\* ------------------------------------------------------- serialize_doc
\* Mutant: the internal identifier field is kept next to id.
serialize_doc_KeepsInternalId(doc) ==
    IF ~Truthy(doc) THEN doc
    ELSE [k \in DOMAIN doc \cup {"id"} |->
            IF k = "id" THEN str(doc["_id"]) ELSE doc[k]]

serialize_doc(doc) ==
    IF ~Truthy(doc) THEN doc
    ELSE [k \in (DOMAIN doc \ {"_id"}) \cup {"id"} |->
            IF k = "id" THEN str(doc["_id"]) ELSE doc[k]]

\* ------------------------------------------------------------- schemas
Fields == {"title", "description", "price", "category", "in_stock"}

\* Field defaults of ProductIn.
ProductInDefault ==
    [description |-> None, category |-> Val("Geral"), in_stock |-> Val(TRUE)]

\* A JSON body binds to ProductIn: title and price are required, price >= 0,
\* only description may be null.
ValidProductIn(p) ==
    /\ DOMAIN p \subseteq Fields
    /\ {"title", "price"} \subseteq DOMAIN p
    /\ \A k \in DOMAIN p \ {"description"} : p[k] # None
    /\ p["price"].v >= 0

\* payload.model_dump() of a ProductIn: every field, defaults filled in.
ProductInDump(p) ==
    [k \in Fields |-> IF k \in DOMAIN p THEN p[k] ELSE ProductInDefault[k]]

\* Mutant: the ge=0 constraint on price is missing.
ValidProductUpdate_NoGe(p) == DOMAIN p \subseteq Fields

\* A JSON body binds to ProductUpdate: every field optional and nullable,
\* a supplied price is >= 0.
ValidProductUpdate(p) ==
    /\ DOMAIN p \subseteq Fields
    /\ ("price" \in DOMAIN p /\ p["price"] # None) => p["price"].v >= 0

\* payload.model_dump(exclude_unset=True): the supplied fields, nulls included.
ProductUpdateDump(p) == p

\* Mutant: explicit nulls are not filtered out.
SparseFields_KeepsNulls(p) == ProductUpdateDump(p)

\* {k: v for k, v in dump.items() if v is not None}
SparseFields(p) ==
    [k \in {f \in DOMAIN ProductUpdateDump(p) : ProductUpdateDump(p)[f] # None}
        |-> ProductUpdateDump(p)[k]]

\* data["updated_at"] = datetime.now(timezone.utc), read as t
Stamped(data, t) ==
    [k \in DOMAIN data \cup {"updated_at"} |->
        IF k = "updated_at" THEN Val(t) ELSE data[k]]

\* -------------------------------------------------------------- inputs
\* Request bodies of POST /api/products.
CreatePayloads ==
    { [title |-> Val("Tree"), price |-> Val(5)],
      [title |-> Val("Star"), description |-> Val("d0"), price |-> Val(0),
       category |-> Val("Natal"), in_stock |-> Val(FALSE)],
      [title |-> Val("Tree"), price |-> Val(0 - 1)],
      [price |-> Val(5)] }

\* Request bodies of PUT /api/products/{id}.
UpdatePayloads ==
    { EmptyDict,
      [price |-> None],
      [price |-> Val(7)],
      [title |-> Val("Star")],
      [title |-> Val("Bell"), category |-> Val("Natal"),
       in_stock |-> Val(FALSE), price |-> None],
      [price |-> Val(0 - 1)] }

\* The store assigns identifiers from a counter; FirstOid is the first one.
FirstOid == 10

Upper(c) ==
    CASE c = "a" -> "A" [] c = "b" -> "B" [] c = "c" -> "C"
      [] c = "d" -> "D" [] c = "e" -> "E" [] c = "f" -> "F"
      [] OTHER -> c

\* Well-formed identifiers: every identifier the store can assign (each is
\* unknown to the store before its insert and after its delete), and the
\* upper-case spelling of the first one.
ValidRawIds ==
    {str(FirstOid + i) : i \in 0..(MaxProducts - 1)}
        \cup {[i \in 1..OidLen |-> Upper(str(FirstOid)[i])]}

\* Malformed identifiers: empty, too short, too long, not hexadecimal.
MalformedRawIds ==
    { <<>>,
      SubSeq(str(FirstOid), 1, OidLen - 1),
      str(FirstOid) \o <<"0">>,
      [i \in 1..OidLen |-> IF i = 1 THEN "g" ELSE str(FirstOid)[i]] }

RawIds == ValidRawIds \cup MalformedRawIds

\* --------------------------------------------------------------- state
VARIABLES
    db,        \* TRUE iff the store handle is configured (db is not None)
    product,   \* the product collection: a set of documents
    nextOid,   \* number of identifiers the store has assigned
    now,       \* the wall clock
    pc,        \* position of each update_product request
    req,       \* locals of each update_product request (oid, payload, data),
               \* kept as history once its update_one has matched
    out,       \* the response the last step sent, NoResponse if it sent none
    wlog,      \* history: update requests in the order their update_one matched
    created,   \* history: the identifier, the id answered and the payload of
               \* each create whose product is not deleted
    deleted    \* history: identifiers of the documents delete_one removed

vars == <<db, product, nextOid, now, pc, req, out, wlog, created, deleted>>

Reqs == 1..MaxUpdates

Ids(coll) == {d["_id"] : d \in coll}

NoReq == [oid |-> 0, payload |-> EmptyDict, data |-> EmptyDict]

\* A response: the handler, the update request (0 for the other handlers),
\* the HTTP status and the JSON body.
Response(op, r, code, body) ==
    [op |-> op, req |-> r, code |-> code, body |-> body]

\* HTTPException(status_code, detail)
HTTPException(op, r, code, detail) ==
    Response(op, r, code, [detail |-> detail])

NoResponse == Response("none", 0, 0, EmptyDict)

Init ==
    /\ db \in BOOLEAN
    /\ product = {}
    /\ nextOid = 0
    /\ now = 0
    /\ pc = [r \in Reqs |-> "new"]
    /\ req = [r \in Reqs |-> NoReq]
    /\ out = NoResponse
    /\ wlog = <<>>
    /\ created = {}
    /\ deleted = {}

\* ------------------------------------------------------------- gateway
\* find_one({"_id": oid})
find_one(coll, oid) ==
    IF \E d \in coll : d["_id"] = oid
    THEN CHOOSE d \in coll : d["_id"] = oid
    ELSE None

\* Mutant: the document is replaced by the whole payload model, so the
\* fields the caller did not supply become null.
SetFields_Replace(doc, data) ==
    [k \in DOMAIN doc \cup DOMAIN data |->
        IF k \in DOMAIN data THEN data[k]
        ELSE IF k \in Fields THEN None ELSE doc[k]]

\* {"$set": data} applied to one document.
SetFields(doc, data) ==
    [k \in DOMAIN doc \cup DOMAIN data |->
        IF k \in DOMAIN data THEN data[k] ELSE doc[k]]

\* Mutant: update_one with upsert: a missing document is created.
update_one_Upsert(coll, oid, data) ==
    IF \E d \in coll : d["_id"] = oid
    THEN {IF d["_id"] = oid THEN SetFields(d, data) ELSE d : d \in coll}
    ELSE coll \cup {SetFields([_id |-> oid], data)}

\* update_one({"_id": oid}, {"$set": data}): the collection afterwards.
update_one(coll, oid, data) ==
    {IF d["_id"] = oid THEN SetFields(d, data) ELSE d : d \in coll}

\* res.matched_count of that update_one.
matched_count(coll, oid) == Cardinality({d \in coll : d["_id"] = oid})

\* delete_one({"_id": oid}): the collection afterwards.
delete_one(coll, oid) == {d \in coll : d["_id"] # oid}

\* Mutant: the deleted_count test is lost, every delete reports a deletion.
deleted_count_AlwaysOne(coll, oid) == 1

\* res.deleted_count of that delete_one.
deleted_count(coll, oid) == Cardinality({d \in coll : d["_id"] = oid})

\* The document create_document inserts: the entity's fields, the assigned
\* identifier and both timestamps.
NewDocument(fields, oid, t) ==
    [k \in Fields \cup {"_id", "created_at", "updated_at"} |->
        CASE k = "_id" -> oid
          [] k \in {"created_at", "updated_at"} -> Val(t)
          [] OTHER -> fields[k]]

\* find({}).sort("created_at", -1): every order of the collection that is
\* descending in created_at (documents with equal created_at in any order).
SortedListings(coll) ==
    {s \in [1..Cardinality(coll) -> coll] :
        /\ \A i, j \in DOMAIN s : i # j => s[i] # s[j]
        /\ \A i, j \in DOMAIN s :
              i < j => s[i]["created_at"].v >= s[j]["created_at"].v}

\* ------------------------------------------------------------ handlers
\* The wall clock advances.
Tick ==
    /\ now < MaxClock
    /\ now' = now + 1
    /\ out' = NoResponse
    /\ UNCHANGED <<db, product, nextOid, pc, req, wlog, created, deleted>>

\* GET /api/products
list_products ==
    /\ \E docs \in (IF db THEN SortedListings(product) ELSE {<<>>}) :
          out' = Response("list", 0, 200,
                          [items |-> [i \in DOMAIN docs |-> serialize_doc(docs[i])]])
    /\ UNCHANGED <<db, product, nextOid, now, pc, req, wlog, created, deleted>>

\* POST /api/products with body p
create_product(p) ==
    /\ nextOid < MaxProducts
    /\ IF ~ValidProductIn(p)
       THEN \* the body does not bind to ProductIn: the handler is not called
            /\ out' = HTTPException("create", 0, 422, "validation error")
            /\ UNCHANGED <<product, nextOid, created>>
       ELSE IF ~db
       THEN \* create_document raises, the handler answers 400
            /\ out' = HTTPException("create", 0, 400, "Database not available")
            /\ UNCHANGED <<product, nextOid, created>>
       ELSE /\ product' = product \cup
                    {NewDocument(ProductInDump(p), FirstOid + nextOid, now)}
            /\ nextOid' = nextOid + 1
            /\ out' = Response("create", 0, 200,
                               [status |-> "ok", id |-> str(FirstOid + nextOid)])
            /\ created' = created \cup
                    {[oid |-> FirstOid + nextOid, id |-> str(FirstOid + nextOid),
                      payload |-> p]}
    /\ UNCHANGED <<db, now, pc, req, wlog, deleted>>

\* PUT /api/products/{raw} with body p, up to the stamping of updated_at
\* (lines 136-144); requests are numbered in the order they arrive.
update_product(r, raw, p) ==
    /\ pc[r] = "new"
    /\ \A q \in Reqs : q < r => pc[q] # "new"
    /\ IF ~ValidProductUpdate(p)
       THEN \* the body does not bind to ProductUpdate: the handler is not called
            /\ out' = HTTPException("update", r, 422, "validation error")
            /\ pc' = [pc EXCEPT ![r] = "done"]
            /\ req' = req
       ELSE IF ~db
       THEN /\ out' = HTTPException("update", r, 500, "Database not configured")
            /\ pc' = [pc EXCEPT ![r] = "done"]
            /\ req' = req
       ELSE IF ~is_valid(raw)
       THEN \* ValueError, answered by "except Exception"
            /\ out' = HTTPException("update", r, 400, "Invalid objectid")
            /\ pc' = [pc EXCEPT ![r] = "done"]
            /\ req' = req
       ELSE IF SparseFields(p) = EmptyDict
       THEN /\ out' = HTTPException("update", r, 400, "No fields to update")
            /\ pc' = [pc EXCEPT ![r] = "done"]
            /\ req' = req
       ELSE /\ req' = [req EXCEPT ![r] =
                        [oid |-> ObjectId(raw),
                         payload |-> p,
                         data |-> Stamped(SparseFields(p), now)]]
            /\ pc' = [pc EXCEPT ![r] = "update_one"]
            /\ out' = NoResponse
    /\ UNCHANGED <<db, product, nextOid, now, wlog, created, deleted>>

\* update_product, lines 145-147: update_one and the matched_count test
update_product_update_one(r) ==
    /\ pc[r] = "update_one"
    /\ product' = update_one(product, req[r].oid, req[r].data)
    /\ IF matched_count(product, req[r].oid) = 0
       THEN /\ out' = HTTPException("update", r, 404, "Product not found")
            /\ pc' = [pc EXCEPT ![r] = "done"]
            /\ req' = [req EXCEPT ![r] = NoReq]
            /\ wlog' = wlog
       ELSE /\ pc' = [pc EXCEPT ![r] = "find_one"]
            /\ wlog' = Append(wlog, r)
            /\ out' = NoResponse
            /\ req' = req
    /\ UNCHANGED <<db, nextOid, now, created, deleted>>

\* update_product, lines 148-149: the re-read and the response
update_product_find_one(r) ==
    /\ pc[r] = "find_one"
    /\ out' = Response("update", r, 200,
                       serialize_doc(find_one(product, req[r].oid)))
    /\ pc' = [pc EXCEPT ![r] = "done"]
    /\ UNCHANGED <<db, product, nextOid, now, req, wlog, created, deleted>>

\* Mutant: the identifier is validated before the store handle is tested.
delete_product_ValidatesFirst(raw) ==
    /\ IF ~is_valid(raw)
       THEN /\ out' = HTTPException("delete", 0, 400, "Invalid objectid")
            /\ UNCHANGED <<product, created, deleted>>
       ELSE IF ~db
       THEN /\ out' = HTTPException("delete", 0, 500, "Database not configured")
            /\ UNCHANGED <<product, created, deleted>>
       ELSE LET oid == ObjectId(raw)
            IN /\ product' = delete_one(product, oid)
               /\ IF deleted_count(product, oid) = 0
                  THEN /\ out' = HTTPException("delete", 0, 404, "Product not found")
                       /\ UNCHANGED <<created, deleted>>
                  ELSE /\ out' = Response("delete", 0, 200, [status |-> "ok"])
                       /\ deleted' = deleted \cup {oid}
                       /\ created' = {c \in created : c.oid # oid}
    /\ UNCHANGED <<db, nextOid, now, pc, req, wlog>>

\* DELETE /api/products/{raw}
delete_product(raw) ==
    /\ IF ~db
       THEN /\ out' = HTTPException("delete", 0, 500, "Database not configured")
            /\ UNCHANGED <<product, created, deleted>>
       ELSE IF ~is_valid(raw)
       THEN /\ out' = HTTPException("delete", 0, 400, "Invalid objectid")
            /\ UNCHANGED <<product, created, deleted>>
       ELSE LET oid == ObjectId(raw)
            IN /\ product' = delete_one(product, oid)
               /\ IF deleted_count(product, oid) = 0
                  THEN /\ out' = HTTPException("delete", 0, 404, "Product not found")
                       /\ UNCHANGED <<created, deleted>>
                  ELSE /\ out' = Response("delete", 0, 200, [status |-> "ok"])
                       /\ deleted' = deleted \cup {oid}
                       /\ created' = {c \in created : c.oid # oid}
    /\ UNCHANGED <<db, nextOid, now, pc, req, wlog>>

Next ==
    \/ Tick
    \/ list_products
    \/ \E p \in CreatePayloads : create_product(p)
    \/ \E r \in Reqs, raw \in RawIds, p \in UpdatePayloads : update_product(r, raw, p)
    \/ \E r \in Reqs : update_product_update_one(r)
    \/ \E r \in Reqs : update_product_find_one(r)
    \/ \E raw \in RawIds : delete_product(raw)

Spec == Init /\ [][Next]_vars

\* ------------------------------------------------------------- helpers
Max(S) == CHOOSE x \in S : \A y \in S : y <= x

\* The fields of payload p supplied with a non-null value.
Supplied(p) == {k \in DOMAIN p : p[k] # None}

NegativePrice(p) ==
    "price" \in DOMAIN p /\ p["price"] # None /\ p["price"].v < 0

\* The positions of wlog whose update_one wrote field k of document oid.
Writers(oid, k) ==
    {i \in DOMAIN wlog : req[wlog[i]].oid = oid /\ k \in DOMAIN req[wlog[i]].data}

\* The step is the first step of update request r (every update_product
\* step is one), resp. a step that answers a delete or a create request
\* (every delete_product, resp. create_product, step is one).
StartsUpdate(r) == pc[r] = "new" /\ pc'[r] # "new"
AnswersDelete == out'.op = "delete"
AnswersCreate == out'.op = "create"

\* ---------------------------------------------------------------- C1
\* C1: with the store configured, update_product (for every payload that
\* binds to ProductUpdate) and delete_product answer a malformed identifier
\* with 400 "Invalid objectid" and leave the product collection as it was.
C1_MalformedIdRejected ==
    [][ db =>
          /\ \A r \in Reqs : StartsUpdate(r) =>
                \A raw \in MalformedRawIds, p \in UpdatePayloads :
                    (ValidProductUpdate(p) /\ update_product(r, raw, p)) =>
                        /\ out' = HTTPException("update", r, 400, "Invalid objectid")
                        /\ pc'[r] = "done"
                        /\ product' = product
          /\ AnswersDelete =>
                \A raw \in MalformedRawIds :
                    delete_product(raw) =>
                        /\ out' = HTTPException("delete", 0, 400, "Invalid objectid")
                        /\ product' = product ]_vars

C1_Witness ==
    /\ db
    /\ product # {}
    /\ \E r \in Reqs : out = HTTPException("update", r, 400, "Invalid objectid")

\* ---------------------------------------------------------------- C2
\* C2: the update_one of an update_product request that matches a product
\* sets exactly the fields the payload supplied with a non-null value and
\* sets updated_at to the time the handler read; every other field of that
\* product (fields supplied as null, _id and created_at included) and every
\* other product stay as they were.
C2_PartialUpdateLaw ==
    [][ \A r \in Reqs :
          /\ (pc[r] = "new" /\ pc'[r] = "update_one") =>
                req'[r].data["updated_at"] = Val(now)
          /\ (pc[r] = "update_one" /\ pc'[r] = "find_one") =>
                LET old == find_one(product, req[r].oid)
                    new == find_one(product', req[r].oid)
                    p == req[r].payload
                IN /\ old # None
                   /\ new # None
                   /\ DOMAIN new = DOMAIN old
                   /\ \A k \in DOMAIN old :
                         new[k] = IF k \in Supplied(p) THEN p[k]
                                  ELSE IF k = "updated_at"
                                  THEN req[r].data["updated_at"]
                                  ELSE old[k]
                   /\ product' \ {new} = product \ {old} ]_vars

C2_Witness ==
    \E r \in Reqs :
        /\ pc[r] = "find_one"
        /\ Supplied(req[r].payload) # DOMAIN req[r].payload
        /\ Cardinality(product) = 2
        /\ \E d \in product :
              /\ d["_id"] = req[r].oid
              /\ d["updated_at"].v > d["created_at"].v

\* ---------------------------------------------------------------- C3
\* C3: with the store configured and a well-formed identifier, an update
\* whose payload supplies no non-null field is answered 400 "No fields to
\* update" at once: the request never reaches update_one or find_one and the
\* collection (updated_at included) stays as it was, whether or not the
\* product exists.
C3_EmptyUpdateRejected ==
    [][ db => \A r \in Reqs : StartsUpdate(r) =>
          \A raw \in ValidRawIds, p \in UpdatePayloads :
              (Supplied(p) = {} /\ update_product(r, raw, p)) =>
                  /\ out' = HTTPException("update", r, 400, "No fields to update")
                  /\ pc'[r] = "done"
                  /\ product' = product ]_vars

C3_Witness ==
    /\ Cardinality(product) = MaxProducts
    /\ \E r \in Reqs : out = HTTPException("update", r, 400, "No fields to update")

\* ---------------------------------------------------------------- C4
\* C4: delete_product of an existing product answers {status: ok} and
\* removes exactly that document; delete_product of an identifier that was
\* already deleted answers 404 and changes nothing.  (A step that answers a
\* delete with 400 and changes nothing is the answer to a malformed
\* identifier, C1, and is not looked at here.)
C4_DeleteNotIdempotent ==
    [][ (db /\ AnswersDelete /\ (product' # product \/ out'.code # 400)) =>
        \A raw \in ValidRawIds :
          delete_product(raw) =>
              LET oid == ObjectId(raw)
              IN /\ oid \in Ids(product) =>
                       /\ out' = Response("delete", 0, 200, [status |-> "ok"])
                       /\ product' = {d \in product : d["_id"] # oid}
                       /\ Cardinality(product') = Cardinality(product) - 1
                 /\ oid \in deleted =>
                       /\ out' = HTTPException("delete", 0, 404, "Product not found")
                       /\ product' = product ]_vars

C4_Witness ==
    /\ Cardinality(deleted) = MaxProducts
    /\ product = {}
    /\ out = HTTPException("delete", 0, 404, "Product not found")

\* ---------------------------------------------------------------- C5
\* C5: an update_product whose update_one matched and whose re-read finds
\* the product deleted answers 404, never a success without a document.
C5_RaceSurfacesNotFound ==
    \A r \in Reqs :
        ( /\ out.op = "update"
          /\ out.req = r
          /\ \E i \in DOMAIN wlog : wlog[i] = r
          /\ find_one(product, req[r].oid) = None ) => out.code = 404

\* ---------------------------------------------------------------- C6
\* C6: the update_one of every update request whose product is stored
\* matches, whatever ran before it; and every field of a stored product that
\* matched update_one calls have set holds the value of the last of them to
\* reach the store: updates of disjoint fields all survive, and a field two
\* updates share holds the value of the later one, never a third value.
C6_ConcurrentUpdatesMerge ==
    /\ [](\A d \in product, k \in Fields \cup {"updated_at"} :
            Writers(d["_id"], k) # {} =>
                /\ k \in DOMAIN d
                /\ d[k] = req[wlog[Max(Writers(d["_id"], k))]].data[k])
    /\ [][ \A r \in Reqs :
             (pc[r] = "update_one" /\ pc'[r] # "update_one"
                 /\ req[r].oid \in Ids(product)) =>
                    /\ pc'[r] = "find_one"
                    /\ wlog' = Append(wlog, r) ]_vars

C6_Witness ==
    /\ \A r \in {1, 2} : pc[r] = "find_one"
    /\ req[1].oid = req[2].oid
    /\ DOMAIN req[1].data \cap DOMAIN req[2].data = {"updated_at"}
    /\ wlog = <<2, 1>>
    /\ \E d \in product :
          /\ d["_id"] = req[1].oid
          /\ \A r \in {1, 2} : \A k \in Supplied(req[r].payload) :
                d[k] = req[r].payload[k]

\* ---------------------------------------------------------------- C7
\* The entries of a listing that carry identifier id.
Entries(items, id) == {i \in DOMAIN items : items[i]["id"] = id}

\* Some matched update_one has set field k of the product with identifier oid.
Touched(oid, k) == Writers(oid, k) # {}

\* C7 as stated: with the store configured, a listing holds, for every
\* created product that is not deleted, exactly one entry: its id is the
\* non-empty string create returned, it has no _id, and category is "Geral"
\* and in_stock is true when the create payload did not specify them.
C7_CreateThenList ==
    (db /\ out.op = "list") =>
        /\ out.code = 200
        /\ \A c \in created :
              /\ Cardinality(Entries(out.body.items, c.id)) = 1
              /\ \A i \in Entries(out.body.items, c.id) :
                    /\ Len(out.body.items[i]["id"]) > 0
                    /\ "_id" \notin DOMAIN out.body.items[i]
                    /\ "category" \notin DOMAIN c.payload =>
                          out.body.items[i]["category"] = Val("Geral")
                    /\ "in_stock" \notin DOMAIN c.payload =>
                          out.body.items[i]["in_stock"] = Val(TRUE)

\* C7 (amended): as C7, the defaults being claimed only of a field that no
\* update has set since the create.
C7_CreateThenListUnmodified ==
    (db /\ out.op = "list") =>
        /\ out.code = 200
        /\ \A c \in created :
              /\ Cardinality(Entries(out.body.items, c.id)) = 1
              /\ \A i \in Entries(out.body.items, c.id) :
                    /\ Len(out.body.items[i]["id"]) > 0
                    /\ "_id" \notin DOMAIN out.body.items[i]
                    /\ ("category" \notin DOMAIN c.payload
                            /\ ~Touched(c.oid, "category")) =>
                          out.body.items[i]["category"] = Val("Geral")
                    /\ ("in_stock" \notin DOMAIN c.payload
                            /\ ~Touched(c.oid, "in_stock")) =>
                          out.body.items[i]["in_stock"] = Val(TRUE)

C7_Witness ==
    /\ db
    /\ out.op = "list"
    /\ Len(out.body.items) = 2
    /\ \E c \in created :
          /\ "category" \notin DOMAIN c.payload
          /\ ~Touched(c.oid, "category")
          /\ Touched(c.oid, "title")

\* ---------------------------------------------------------------- C8
\* C8: without a store handle list_products answers 200 with an empty
\* list, and update_product (for every identifier and every payload that
\* binds to ProductUpdate) and delete_product (for every identifier) answer
\* 500 "Database not configured"; the handlers stay available afterwards.
C8_StoreUnavailable ==
    /\ [](~db => /\ ENABLED list_products
                 /\ ENABLED (\E raw \in RawIds : delete_product(raw)))
    /\ [][ ~db =>
             /\ list_products => out' = Response("list", 0, 200, [items |-> <<>>])
             /\ \A r \in Reqs : StartsUpdate(r) =>
                   \A raw \in RawIds, p \in UpdatePayloads :
                       (ValidProductUpdate(p) /\ update_product(r, raw, p)) =>
                           /\ out' = HTTPException("update", r, 500,
                                                   "Database not configured")
                           /\ pc'[r] = "done"
             /\ AnswersDelete =>
                   \A raw \in RawIds :
                       delete_product(raw) =>
                           out' = HTTPException("delete", 0, 500,
                                                "Database not configured")
             /\ product' = {} ]_vars

C8_Witness ==
    /\ ~db
    /\ pc[1] = "done"
    /\ out = HTTPException("delete", 0, 500, "Database not configured")

\* ---------------------------------------------------------------- C9
\* C9: the update_one of an update_product request whose identifier matches
\* no product answers 404 and leaves the collection as it was; no step of an
\* update request changes the set of stored identifiers, which changes only
\* by a successful create (one identifier more) or delete (one fewer).
C9_UpdateNeverCreates ==
    [][ /\ \A r \in Reqs :
             /\ pc'[r] # pc[r] => Ids(product') = Ids(product)
             /\ (pc[r] = "update_one" /\ pc'[r] # "update_one"
                    /\ req[r].oid \notin Ids(product)) =>
                   /\ out' = HTTPException("update", r, 404, "Product not found")
                   /\ product' = product
        /\ Ids(product') # Ids(product) =>
             \/ /\ \E oid \in Ids(product') \ Ids(product) :
                      Ids(product') = Ids(product) \cup {oid}
                /\ out'.op = "create"
                /\ out'.code = 200
             \/ /\ \E oid \in Ids(product) \ Ids(product') :
                      Ids(product') = Ids(product) \ {oid}
                /\ out'.op = "delete"
                /\ out'.code = 200 ]_vars

C9_Witness ==
    /\ product # {}
    /\ \E r \in Reqs : out = HTTPException("update", r, 404, "Product not found")

\* ---------------------------------------------------------------- C10
\* C10: every stored product has a price >= 0; a create or an update whose
\* payload carries a negative price is refused with a 4xx answer and leaves
\* the collection as it was.
C10_PriceNonNegative ==
    /\ [](\A d \in product : d["price"] # None /\ d["price"].v >= 0)
    /\ [][ /\ AnswersCreate =>
                \A p \in CreatePayloads :
                    (NegativePrice(p) /\ create_product(p)) =>
                        /\ out'.code \in 400..499
                        /\ product' = product
           /\ \A r \in Reqs : StartsUpdate(r) =>
                \A raw \in RawIds, p \in UpdatePayloads :
                    (NegativePrice(p) /\ update_product(r, raw, p)) =>
                        /\ out'.code \in 400..499
                        /\ pc'[r] = "done"
                        /\ product' = product ]_vars

C10_Witness ==
    /\ product # {}
    /\ \E d \in product : d["price"].v = 7
    /\ \E r \in Reqs : out = HTTPException("update", r, 422, "validation error")

====
